---- MODULE Spec2Model ----
(***************************************************************************)
(* A model of threebody (src/src/main.rs): the Body operations, the        *)
(* parallel force computation, the integrator, the collision and boundary  *)
(* pass and the frame loop of main.                                        *)
(*                                                                         *)
(* Numbers.  The program computes in f32.  The model computes in fixed     *)
(* point: a quantity q is held as the integer q * Scale, products and      *)
(* quotients are rescaled and rounded toward zero, and a square root is    *)
(* rounded down (up when it is the divisor of the velocity clamp, so that  *)
(* rounding never lengthens a rescaled vector).  Comparisons of a length   *)
(* with a threshold are made on the squares and are exact.  The last-ulp   *)
(* rounding of f32 is not modelled.                                        *)
(***************************************************************************)
EXTENDS Integers, Sequences, FiniteSets, TLC

VARIABLES
    bodies,      \* main's Vec<Body>
    forces,      \* the Vec<Vec2> calculate_forces returns
    pc,          \* where the frame loop (or the called function) is
    ci,          \* the index i of the collision and boundary loop (1-based)
    input,       \* what the input layer reports in the current frame
    framesLeft,  \* frames still to be run
    pre,         \* the collection as it was when the current step began
    post,        \* the collection as it was when the collision pass began
    cs,          \* command history: "none", "cleared", "spawned"
    spawnP,      \* the position handed to the last spawn
    done,        \* the force tasks that have finished
    arg,         \* the arguments of the function under test
    ret          \* its result

vars == <<bodies, forces, pc, ci, input, framesLeft, pre, post, cs, spawnP, done, arg, ret>>

----------------------------------------------------------------------------
(* Bounds of the model *)

\* fixed-point resolution: one unit is 1/Scale
Scale == 10
\* bodies the frame loop starts with (NUM_OF_BODIES = 10000 in the program)
NumInit == 1
\* bodies of the crowded start
NumCrowd == 4
\* frames run from the ordinary start
MaxFrames == 2
\* bodies the collection may grow to by spawning
MaxBodies == 2
\* substeps per frame (1000 in the program, main.rs:199)
SubstepsPerFrame == 2
\* substeps tried on the integrator alone
MaxSubsteps == 2
\* bodies of a collection handed to the force computation alone
NumPar == 3

----------------------------------------------------------------------------
(* Program constants, main.rs:6-11 *)

G == Scale \div 10
SCREEN_WIDTH == 800 * Scale
SCREEN_HEIGHT == 600 * Scale
\* FRICTION = 0.99, held in hundredths
FRICTION == 99
MAX_VELOCITY == 10 * Scale

----------------------------------------------------------------------------
(* f32 arithmetic in fixed point *)

\* quotient rounded toward zero, b > 0
Div(a, b) == IF a >= 0 THEN a \div b ELSE -((-a) \div b)

\* a * b of two scaled quantities
Mul(a, b) == Div(a * b, Scale)

\* a / b of two scaled quantities
Quot(a, b) == Div(a * Scale, b)

\* x * FRICTION
MulFriction(x) == Div(x * FRICTION, 100)

RECURSIVE SqrtSearch(_, _, _)
SqrtSearch(n, lo, hi) ==
    IF lo >= hi THEN lo
    ELSE LET mid == (lo + hi + 1) \div 2
         IN  IF mid * mid <= n THEN SqrtSearch(n, mid, hi)
                               ELSE SqrtSearch(n, lo, mid - 1)

\* the square root of n, rounded down
Sqrt(n) == SqrtSearch(n, 0, IF n < 46340 THEN n ELSE 46340)

\* the square root of n, rounded up
SqrtUp(n) == LET r == Sqrt(n) IN IF r * r = n THEN r ELSE r + 1

Min(a, b) == IF a <= b THEN a ELSE b
Max(a, b) == IF a >= b THEN a ELSE b

\* f32::clamp
Clamp(x, lo, hi) == Max(lo, Min(x, hi))

----------------------------------------------------------------------------
(* Vec2 *)

vec2(x, y) == [x |-> x, y |-> y]
ZERO == vec2(0, 0)
VAdd(a, b) == vec2(a.x + b.x, a.y + b.y)
VMul(a, s) == vec2(Mul(a.x, s), Mul(a.y, s))
VFriction(a) == vec2(MulFriction(a.x), MulFriction(a.y))
LengthSq(a) == a.x * a.x + a.y * a.y

----------------------------------------------------------------------------
(* Body *)

\* Option<Vec2>: None is the empty set, Some(p) is {p}
None == {}
Some(p) == {p}

\* Body::new
new(initial_pos) ==
    [position |-> initial_pos, velocity |-> ZERO, acceleration |-> ZERO,
     force |-> ZERO, mass |-> 1000 * Scale, radius |-> 10 * Scale,
     freezed |-> FALSE]

\* the outcomes of rand::gen_range the model draws from
RandMass == {500 * Scale, 1500 * Scale}

\* radius = mass / 150.0 of the lightest and of the heaviest body
SmallRadius == Div(500 * Scale, 150)
LargeRadius == Div(1500 * Scale, 150)

\* the middle of the arena
Centre == vec2(400 * Scale, 300 * Scale)

RandPos == {Centre, VAdd(Centre, vec2(2 * SmallRadius, 0))}
RandVelocity == {ZERO, vec2(Scale \div 2, -(Scale \div 2))}

\* Body::random: the set of bodies it can return
random(initial_pos) ==
    { [position |-> p, velocity |-> v, acceleration |-> ZERO, force |-> ZERO,
       mass |-> m, radius |-> Div(m, 150), freezed |-> FALSE] :
      p \in (IF initial_pos = None THEN RandPos ELSE initial_pos),
      v \in RandVelocity, m \in RandMass }

\* Body::get_distance (of two positions)
Distance(p, q) == Sqrt(LengthSq(vec2(q.x - p.x, q.y - p.y)))
get_distance(self, other_body) == Distance(self.position, other_body.position)

\* calculate_force with the threshold taken from the other body's radius
calculate_force_other_radius(self, other_body) ==
    LET distance == get_distance(self, other_body) IN
    IF distance < 2 * other_body.radius THEN ZERO
    ELSE LET magnitude == Mul(G, Div(self.mass * other_body.mass,
                                     Div(distance * distance, Scale)))
         IN  vec2(Div(magnitude * (other_body.position.x - self.position.x), distance),
                  Div(magnitude * (other_body.position.y - self.position.y), distance))

\* Body::calculate_force
calculate_force(self, other_body) ==
    LET distance == get_distance(self, other_body) IN
    IF distance < 2 * self.radius THEN ZERO
    ELSE LET numer == self.mass * other_body.mass
             denom == distance * distance
             magnitude == Mul(G, Div(numer, Div(denom, Scale)))
         IN  vec2(Div(magnitude * (other_body.position.x - self.position.x), distance),
                  Div(magnitude * (other_body.position.y - self.position.y), distance))

\* Body::update_acceleration
update_acceleration(self) ==
    [self EXCEPT !.acceleration = vec2(Quot(self.force.x, self.mass),
                                       Quot(self.force.y, self.mass))]

\* update_velocity without the limit on the velocity
update_velocity_unlimited(self, dt) ==
    [self EXCEPT !.velocity = VAdd(self.velocity, VMul(self.acceleration, dt))]

\* Body::update_velocity
update_velocity(self, dt) ==
    LET v == VAdd(self.velocity, VMul(self.acceleration, dt)) IN
    IF LengthSq(v) > MAX_VELOCITY * MAX_VELOCITY
    THEN LET len == SqrtUp(LengthSq(v))
         IN  [self EXCEPT !.velocity = vec2(Div(v.x * MAX_VELOCITY, len),
                                            Div(v.y * MAX_VELOCITY, len))]
    ELSE [self EXCEPT !.velocity = v]

\* Body::update_position
update_position(self, dt) ==
    [self EXCEPT !.position = VAdd(self.position, VMul(self.velocity, dt))]

\* update without the test of freezed
update_frozen_too(self, dt) ==
    update_position(update_velocity(update_acceleration(self), dt), dt)

\* Body::update
update(self, dt) ==
    IF ~self.freezed
    THEN update_position(update_velocity(update_acceleration(self), dt), dt)
    ELSE self

\* the collision test with <= for <
CollidesOrTouches(self, other_body) ==
    \/ get_distance(self, other_body) <= 2 * self.radius
    \/ get_distance(self, other_body) <= 2 * other_body.radius

\* the test of Body::check_and_resolve_collision
Collides(self, other_body) ==
    \/ get_distance(self, other_body) < 2 * self.radius
    \/ get_distance(self, other_body) < 2 * other_body.radius

\* Body::check_and_resolve_collision: <<self, other_body>> after the call
check_and_resolve_collision(self, other_body) ==
    IF Collides(self, other_body)
    THEN <<[self EXCEPT !.velocity = VFriction(other_body.velocity)],
           [other_body EXCEPT !.velocity = VFriction(self.velocity)]>>
    ELSE <<self, other_body>>

\* the boundary test with < and > for <= and >=
BeyondBoundary(p, radius, extent) == p < radius \/ p > extent - radius

\* the test of Body::check_boundary_collisions on one axis
AtBoundary(p, radius, extent) == p <= radius \/ p >= extent - radius

\* Body::check_boundary_collisions
check_boundary_collisions(self) ==
    LET hitX == AtBoundary(self.position.x, self.radius, SCREEN_WIDTH)
        hitY == AtBoundary(self.position.y, self.radius, SCREEN_HEIGHT)
    IN  [self EXCEPT
          !.velocity = vec2(IF hitX THEN MulFriction(-self.velocity.x) ELSE self.velocity.x,
                            IF hitY THEN MulFriction(-self.velocity.y) ELSE self.velocity.y),
          !.position = vec2(IF hitX THEN Clamp(self.position.x, self.radius,
                                               SCREEN_WIDTH - self.radius)
                                    ELSE self.position.x,
                            IF hitY THEN Clamp(self.position.y, self.radius,
                                               SCREEN_HEIGHT - self.radius)
                                    ELSE self.position.y)]

----------------------------------------------------------------------------
(* The operations on the collection *)

\* the fold of calculate_forces for body i over j = k .. len
RECURSIVE FoldForce(_, _, _, _)
FoldForce(bs, i, k, acc) ==
    IF k > Len(bs) THEN acc
    ELSE FoldForce(bs, i, k + 1,
                   IF i # k THEN VAdd(acc, calculate_force(bs[i], bs[k])) ELSE acc)

\* the closure calculate_forces maps over the bodies
BodyForce(bs, i) == FoldForce(bs, i, 1, ZERO)

\* Body::calculate_forces
calculate_forces(bs) == [i \in 1..Len(bs) |-> BodyForce(bs, i)]

\* one pass of iter_mut().zip(forces) { body.force = force; body.update(dt) }
ApplyPass(bs, fs, dt) ==
    [i \in 1..Len(bs) |->
        IF i <= Len(fs) THEN update([bs[i] EXCEPT !.force = fs[i]], dt) ELSE bs[i]]

\* Body::apply_forces
apply_forces(bs, fs, dt) == ApplyPass(bs, fs, dt)

RECURSIVE SubstepLoop(_, _, _, _)
SubstepLoop(bs, fs, dt_substep, n) ==
    IF n = 0 THEN bs ELSE SubstepLoop(ApplyPass(bs, fs, dt_substep), fs, dt_substep, n - 1)

\* apply_forces_with_substeps with the loop run once more (0..=substeps)
apply_forces_with_substeps_inclusive(bs, fs, dt, substeps) ==
    SubstepLoop(bs, fs, Div(dt, substeps), substeps + 1)

\* Body::apply_forces_with_substeps
apply_forces_with_substeps(bs, fs, dt, substeps) ==
    SubstepLoop(bs, fs, Div(dt, substeps), substeps)

----------------------------------------------------------------------------
(* The frame loop of main, main.rs:190-255 *)

\* what the input layer can report in one frame
MousePos == {Centre, VAdd(Centre, vec2(2 * SmallRadius, 0)), vec2(SCREEN_WIDTH, 0)}
Inputs == [left : BOOLEAN, right : BOOLEAN, middle : BOOLEAN, space : BOOLEAN,
           mouse : MousePos]
NoInput == [left |-> FALSE, right |-> FALSE, middle |-> FALSE, space |-> FALSE,
            mouse |-> vec2(SCREEN_WIDTH, 0)]
AnyButton(in) == in.left \/ in.right \/ in.middle \/ in.space

\* the test of the drag and freeze loops: the body is within 2 * radius of the mouse
NearMouse(body, mouse) == get_distance(body, new(mouse)) < 2 * body.radius

\* main.rs:201-204
Spawn(bs, in, nb) == IF in.left THEN Append(bs, nb) ELSE bs

\* main.rs:207-218
Drag(bs, in) ==
    IF in.right
    THEN [i \in 1..Len(bs) |->
            IF NearMouse(bs[i], in.mouse)
            THEN [bs[i] EXCEPT !.position = in.mouse, !.velocity = ZERO]
            ELSE bs[i]]
    ELSE bs

\* main.rs:220-230
ToggleFreeze(bs, in) ==
    IF in.middle
    THEN [i \in 1..Len(bs) |->
            IF NearMouse(bs[i], in.mouse)
            THEN [bs[i] EXCEPT !.freezed = ~bs[i].freezed]
            ELSE bs[i]]
    ELSE bs

\* the space key without effect
ClearNothing(bs, in) == bs

\* main.rs:232-234
Clear(bs, in) == IF in.space THEN <<>> ELSE bs

\* main.rs:201-234, in program order
ApplyCommands(bs, in, nb) == Clear(ToggleFreeze(Drag(Spawn(bs, in, nb), in), in), in)

\* the inner loop of main.rs:237-241 for j = k .. len
RECURSIVE InnerLoop(_, _, _)
InnerLoop(bs, i, k) ==
    IF k > Len(bs) THEN bs
    ELSE LET r == check_and_resolve_collision(bs[i], bs[k])
         IN  InnerLoop([bs EXCEPT ![i] = r[1], ![k] = r[2]], i, k + 1)

\* the iteration without the boundary check
CollisionIterationNoBoundary(bs, i) == InnerLoop(bs, i, i + 1)

\* one iteration of the outer loop, main.rs:236-251
CollisionIteration(bs, i) ==
    LET after == InnerLoop(bs, i, i + 1)
    IN  [after EXCEPT ![i] = check_boundary_collisions(after[i])]

\* the command history kept for the clear-then-spawn scenario
NextCs(c, in) ==
    IF in.space THEN "cleared"
    ELSE IF c = "cleared" /\ in.left /\ ~in.right /\ ~in.middle THEN "spawned"
    ELSE IF c = "cleared" /\ ~AnyButton(in) THEN "cleared"
    ELSE "none"

\* main.rs:187: the collection main starts with
InitBodies(n) == [1..n -> random(None)]

\* a start with every body at rest
CrowdBodies(n) == [1..n -> {b \in random(None) : b.velocity = ZERO}]

InitFrame(bs, frames) ==
    /\ bodies = bs
    /\ forces = <<>>
    /\ pc = "forces"
    /\ ci = 1
    /\ input = NoInput
    /\ framesLeft = frames
    /\ pre = bs
    /\ post = bs
    /\ cs = "none"
    /\ spawnP = ZERO
    /\ done = {}
    /\ arg = <<>>
    /\ ret = <<>>

Init ==
    \/ \E bs \in InitBodies(NumInit) : InitFrame(bs, MaxFrames)
    \/ \E bs \in CrowdBodies(NumCrowd) : InitFrame(bs, 1)

\* main.rs:196
Forces ==
    /\ pc = "forces"
    /\ forces' = calculate_forces(bodies)
    /\ pre' = bodies
    /\ pc' = "integrate"
    /\ UNCHANGED <<bodies, ci, input, framesLeft, post, cs, spawnP, done, arg, ret>>

\* main.rs:199
Integrate ==
    /\ pc = "integrate"
    /\ bodies' = apply_forces_with_substeps(bodies, forces, Scale, SubstepsPerFrame)
    /\ pc' = "commands"
    /\ UNCHANGED <<forces, ci, input, framesLeft, pre, post, cs, spawnP, done, arg, ret>>

\* main.rs:201-234
Commands ==
    /\ pc = "commands"
    /\ \E in \in Inputs : \E nb \in random(Some(in.mouse)) :
          /\ in.left => Len(bodies) < MaxBodies
          /\ ~in.left => nb = CHOOSE b \in random(Some(in.mouse)) : TRUE
          /\ ~AnyButton(in) => in = NoInput
          /\ input' = in
          /\ bodies' = ApplyCommands(bodies, in, nb)
          /\ post' = ApplyCommands(bodies, in, nb)
          /\ cs' = NextCs(cs, in)
          /\ spawnP' = IF in.left THEN in.mouse ELSE spawnP
    /\ ci' = 1
    /\ pc' = "collide"
    /\ UNCHANGED <<forces, framesLeft, pre, done, arg, ret>>

\* main.rs:236-251, one iteration of the outer loop
CollideStep ==
    /\ pc = "collide"
    /\ ci <= Len(bodies)
    /\ bodies' = CollisionIteration(bodies, ci)
    /\ ci' = ci + 1
    /\ UNCHANGED <<forces, pc, input, framesLeft, pre, post, cs, spawnP, done, arg, ret>>

\* main.rs:236, the loop ends
CollideDone ==
    /\ pc = "collide"
    /\ ci > Len(bodies)
    /\ pc' = "next_frame"
    /\ UNCHANGED <<bodies, forces, ci, input, framesLeft, pre, post, cs, spawnP, done, arg, ret>>

\* main.rs:254
NextFrame ==
    /\ pc = "next_frame"
    /\ framesLeft > 1
    /\ framesLeft' = framesLeft - 1
    /\ pc' = "forces"
    /\ UNCHANGED <<bodies, forces, ci, input, pre, post, cs, spawnP, done, arg, ret>>

Next == Forces \/ Integrate \/ Commands \/ CollideStep \/ CollideDone \/ NextFrame

Spec == Init /\ [][Next]_vars

----------------------------------------------------------------------------
(* calculate_forces task by task, main.rs:139-154: par_iter().map().collect() *)
(* runs one task per body, in any order, each writing the slot of its index  *)

EmptySlot == [full |-> FALSE, value |-> ZERO]

\* results pushed in the order the tasks finish
TaskSlotInOrderOfFinish(i, finished) == Cardinality(finished) + 1

\* the slot of the output the task of body i writes (an indexed collect)
TaskSlot(i, finished) == i

InitPar ==
    /\ bodies \in [1..NumPar -> random(None)]
    /\ forces = [i \in 1..NumPar |-> EmptySlot]
    /\ pc = "par"
    /\ ci = 1
    /\ input = NoInput
    /\ framesLeft = 0
    /\ pre = bodies
    /\ post = <<>>
    /\ cs = "none"
    /\ spawnP = ZERO
    /\ done = {}
    /\ arg = <<>>
    /\ ret = <<>>

\* the closure of main.rs:143-150 run for body i
ForceTask(i) ==
    /\ pc = "par"
    /\ i \notin done
    /\ forces' = [forces EXCEPT ![TaskSlot(i, done)] =
                     [full |-> TRUE, value |-> BodyForce(bodies, i)]]
    /\ done' = done \cup {i}
    /\ UNCHANGED <<bodies, pc, ci, input, framesLeft, pre, post, cs, spawnP, arg, ret>>

\* main.rs:151-153: every task has finished, the Vec is returned
Collect ==
    /\ pc = "par"
    /\ done = 1..Len(bodies)
    /\ forces' = [i \in 1..Len(forces) |-> forces[i].value]
    /\ pc' = "collected"
    /\ UNCHANGED <<bodies, ci, input, framesLeft, pre, post, cs, spawnP, done, arg, ret>>

NextPar == (\E i \in 1..NumPar : ForceTask(i)) \/ Collect

SpecPar == InitPar /\ [][NextPar]_vars

----------------------------------------------------------------------------
(* The Body functions called on their own *)

Body(p, v, m, f) ==
    [position |-> p, velocity |-> v, acceleration |-> ZERO, force |-> ZERO,
     mass |-> m, radius |-> Div(m, 150), freezed |-> f]

\* velocities within MAX_VELOCITY
TestVelocity == {vec2(Scale \div 2, -(Scale \div 2)), vec2(-8 * Scale, 6 * Scale),
                 vec2(10 * Scale, 0)}

\* coordinates on, at and around the arena's edges, for both radii
EdgeX == {-5 * Scale, 0, SmallRadius, SmallRadius + 1, LargeRadius, 400 * Scale,
          SCREEN_WIDTH - LargeRadius, SCREEN_WIDTH - SmallRadius,
          SCREEN_WIDTH - SmallRadius + 1, SCREEN_WIDTH, SCREEN_WIDTH + 5 * Scale}
EdgeY == {0, LargeRadius, 300 * Scale, SCREEN_HEIGHT - SmallRadius, SCREEN_HEIGHT + Scale}

BoundaryBodies ==
    { Body(vec2(x, y), v, m, f) :
        x \in EdgeX, y \in EdgeY, v \in TestVelocity, m \in RandMass, f \in BOOLEAN }

\* the second body of a pair, at these offsets from the first
PairOffset == {ZERO, vec2(2 * SmallRadius - 1, 0), vec2(2 * SmallRadius, 0),
               vec2(0, 2 * LargeRadius - 1), vec2(0, 2 * LargeRadius),
               vec2(12 * Scale, 16 * Scale), vec2(30 * Scale, 40 * Scale)}
PairFirst == { Body(Centre, v, m, f) :
                 v \in TestVelocity, m \in RandMass, f \in BOOLEAN }
PairSecond == { Body(VAdd(Centre, o), v, m, FALSE) :
                  o \in PairOffset, v \in TestVelocity, m \in RandMass }

\* collections for calculate_forces
FieldBodies == { Body(VAdd(Centre, o), ZERO, m, FALSE) :
                   o \in {ZERO, vec2(2 * SmallRadius, 0), vec2(0, 2 * LargeRadius),
                           vec2(-30 * Scale, 40 * Scale)},
                   m \in RandMass }
FieldCollections == UNION { [1..n -> FieldBodies] : n \in 0..3 }

\* collections, forces and time steps for the integrator
StepBodies == { Body(Centre, v, 500 * Scale, f) :
                  v \in {ZERO, vec2(-8 * Scale, 6 * Scale)}, f \in BOOLEAN }
StepForce == {ZERO, vec2(500 * Scale, -200 * Scale), vec2(-1000000 * Scale, 1000000 * Scale)}
StepCollections == UNION { [1..n -> StepBodies] : n \in 0..2 }
StepForces == UNION { [1..n -> StepForce] : n \in 0..2 }
StepDt == {Scale, Scale \div 2}

InitFn ==
    /\ bodies = <<>>
    /\ forces = <<>>
    /\ pc = "fn"
    /\ ci = 1
    /\ input = NoInput
    /\ framesLeft = 0
    /\ pre = <<>>
    /\ post = <<>>
    /\ cs = "none"
    /\ spawnP = ZERO
    /\ done = {}
    /\ arg = <<>>
    /\ ret = <<>>

FnFrame == UNCHANGED <<bodies, forces, ci, input, framesLeft, pre, post, cs, spawnP, done>>

\* a call of check_boundary_collisions
CallBoundary ==
    /\ pc = "fn"
    /\ \E b \in BoundaryBodies :
          /\ arg' = <<b>>
          /\ ret' = check_boundary_collisions(b)
    /\ pc' = "boundary"
    /\ FnFrame

\* a call of check_and_resolve_collision
CallCollision ==
    /\ pc = "fn"
    /\ \E a \in PairFirst, b \in PairSecond :
          /\ arg' = <<a, b>>
          /\ ret' = check_and_resolve_collision(a, b)
    /\ pc' = "collision"
    /\ FnFrame

\* a further call of check_and_resolve_collision on the same pair
CallCollisionAgain ==
    /\ pc = "collision"
    /\ ret' = check_and_resolve_collision(ret[1], ret[2])
    /\ UNCHANGED <<pc, arg>>
    /\ FnFrame

\* a call of calculate_forces
CallForces ==
    /\ pc = "fn"
    /\ \E bs \in FieldCollections :
          /\ arg' = bs
          /\ ret' = calculate_forces(bs)
    /\ pc' = "calculate_forces"
    /\ FnFrame

\* apply_forces and apply_forces_with_substeps called on the same arguments
CallApply ==
    /\ pc = "fn"
    /\ \E bs \in StepCollections, fs \in StepForces, dt \in StepDt, n \in 1..MaxSubsteps :
          /\ arg' = [bodies |-> bs, forces |-> fs, dt |-> dt, substeps |-> n]
          /\ ret' = [single |-> apply_forces(bs, fs, dt),
                     sub |-> apply_forces_with_substeps(bs, fs, dt, n)]
    /\ pc' = "apply"
    /\ FnFrame

NextFn == CallBoundary \/ CallCollision \/ CallCollisionAgain \/ CallForces \/ CallApply

SpecFn == InitFn /\ [][NextFn]_vars

----------------------------------------------------------------------------
(* The claims *)

Unmoved(before, after) ==
    after.position = before.position /\ after.velocity = before.velocity

\* a frame in which no command was applied
QuietFrame == ~AnyButton(input)

\* in collection bs, no other body is within the overlap threshold of body i
Isolated(bs, i) ==
    \A j \in 1..Len(bs) : j # i =>
        LET dx == bs[j].position.x - bs[i].position.x
            dy == bs[j].position.y - bs[i].position.y
            far(r) == dx * dx + dy * dy >= (2 * r) * (2 * r)
        IN  far(bs[i].radius) /\ far(bs[j].radius)

\* strictly more than its radius away from every edge of the arena
InsideMargins(b) ==
    /\ b.radius < b.position.x /\ b.position.x < SCREEN_WIDTH - b.radius
    /\ b.radius < b.position.y /\ b.position.y < SCREEN_HEIGHT - b.radius

\* within the arena by its radius on both axes
InArena(b) ==
    /\ b.radius <= b.position.x /\ b.position.x <= SCREEN_WIDTH - b.radius
    /\ b.radius <= b.position.y /\ b.position.y <= SCREEN_HEIGHT - b.radius

\* C1, as stated: a body frozen when a step begins has the same position and
\* velocity when the step (forces, integration, collision pass, boundary
\* resolution) has ended, whatever the other bodies and its place in the arena.
C1_FrozenUnmovedByStep ==
    (pc = "next_frame" /\ QuietFrame) =>
        \A i \in 1..Len(pre) : pre[i].freezed => Unmoved(pre[i], bodies[i])

\* C1, amended: a body frozen when a step begins has the same position and
\* velocity after the force computation and the substepped integration; it
\* has them still after the collision and boundary pass when, as that pass
\* begins, no other body is within the overlap threshold of it and it lies
\* strictly more than its radius away from every edge.
C1_FrozenUnmovedByIntegration ==
    /\ pc = "commands" =>
          \A i \in 1..Len(pre) : pre[i].freezed => Unmoved(pre[i], bodies[i])
    /\ (pc = "next_frame" /\ QuietFrame) =>
          \A i \in 1..Len(pre) :
              (pre[i].freezed /\ Isolated(post, i) /\ InsideMargins(post[i]))
                  => Unmoved(pre[i], bodies[i])

\* C1's case: a step has ended in which a frozen body with a velocity, isolated
\* and inside the margins, had a nonzero force computed for it.
C1_Witness ==
    /\ pc = "next_frame" /\ QuietFrame
    /\ \E i \in 1..Len(pre) :
          /\ pre[i].freezed /\ forces[i] # ZERO /\ bodies[i].force # ZERO
          /\ pre[i].velocity # ZERO
          /\ Isolated(post, i) /\ InsideMargins(post[i])

\* C2: whatever the frame loop has done, no body, frozen or not, is faster
\* than MAX_VELOCITY (in particular when the integrator has just run).
C2_VelocityLimited ==
    \A i \in 1..Len(bodies) :
        LengthSq(bodies[i].velocity) <= MAX_VELOCITY * MAX_VELOCITY

\* C2's case: the integrator has just run on a body whose force would have
\* taken it beyond MAX_VELOCITY.
C2_Witness ==
    /\ pc = "commands"
    /\ \E i \in 1..Len(bodies) :
          /\ ~bodies[i].freezed
          /\ LengthSq(VAdd(pre[i].velocity, VMul(bodies[i].acceleration, Scale)))
                > MAX_VELOCITY * MAX_VELOCITY
          /\ LengthSq(bodies[i].velocity) > (MAX_VELOCITY - Scale) * (MAX_VELOCITY - Scale)

\* the stages of the current step that have run
StagesRun ==
    CASE pc = "forces" -> 0
      [] pc = "integrate" -> 1
      [] pc = "commands" -> 2
      [] pc = "collide" -> 3
      [] OTHER -> 4

\* C3, as stated: a command takes effect only when no stage of the step has
\* run yet or when all of them have, never between two stages of one step.
C3_CommandsOutsideStep ==
    [][(pc = "commands" /\ AnyButton(input') /\ bodies' # bodies)
          => StagesRun \in {0, 4}]_vars

\* C8, as stated: after a clear and then a spawn at P with no command between
\* them, when the frame of the spawn has ended the collection is one body at P
\* with each velocity component in [-0.5, 0.5].
C8_ClearThenSpawnAtP ==
    (pc = "next_frame" /\ cs = "spawned") =>
        /\ Len(bodies) = 1
        /\ bodies[1].position = spawnP
        /\ -(Scale \div 2) <= bodies[1].velocity.x /\ bodies[1].velocity.x <= Scale \div 2
        /\ -(Scale \div 2) <= bodies[1].velocity.y /\ bodies[1].velocity.y <= Scale \div 2

\* C8, amended: after a clear in one frame and a spawn at P in a later frame
\* with no command between them, when the frame of the spawn has ended the
\* collection is one body whose position is P clamped on each axis to
\* [radius, extent - radius], with each velocity component in [-0.5, 0.5].
C8_ClearThenSpawnClamped ==
    (pc = "next_frame" /\ cs = "spawned") =>
        /\ Len(bodies) = 1
        /\ bodies[1].position.x =
              Clamp(spawnP.x, bodies[1].radius, SCREEN_WIDTH - bodies[1].radius)
        /\ bodies[1].position.y =
              Clamp(spawnP.y, bodies[1].radius, SCREEN_HEIGHT - bodies[1].radius)
        /\ -(Scale \div 2) <= bodies[1].velocity.x /\ bodies[1].velocity.x <= Scale \div 2
        /\ -(Scale \div 2) <= bodies[1].velocity.y /\ bodies[1].velocity.y <= Scale \div 2

\* C8's case: the frame of a spawn after a clear has ended, and the spawn was
\* at a point within a radius of the arena's edge.
C8_Witness ==
    /\ pc = "next_frame" /\ cs = "spawned"
    /\ Len(bodies) = 1
    /\ bodies[1].position # spawnP
    /\ bodies[1].velocity # ZERO

\* C10: when a frame ends every body, frozen or not, lies within the arena by
\* its radius on both axes; during the collision pass so does every body whose
\* boundary check has run, and a later iteration does not move it.
C10_InArenaAtFrameEnd ==
    /\ [](/\ pc = "next_frame" => \A i \in 1..Len(bodies) : InArena(bodies[i])
          /\ pc = "collide" =>
                \A k \in 1..Len(bodies) : k < ci => InArena(bodies[k]))
    /\ [][(pc = "collide" /\ pc' = "collide") =>
            \A k \in 1..Len(bodies) :
                k < ci => bodies'[k].position = bodies[k].position]_vars

\* C10's case: a frame has ended with a frozen body that was put beyond the
\* right edge during the frame and now touches it.
C10_Witness ==
    /\ pc = "next_frame"
    /\ input.mouse.x = SCREEN_WIDTH /\ (input.left \/ input.right)
    /\ \E i \in 1..Len(bodies) :
          /\ bodies[i].freezed
          /\ bodies[i].position.x = SCREEN_WIDTH - bodies[i].radius

\* C6: while the tasks run no body is written, a finished task has written
\* the slot of its own index and no other slot is written; the Vec returned is
\* what the bodies give when computed one after the other in index order.
C6_TasksIndependent ==
    /\ pc = "par" =>
          /\ bodies = pre
          /\ \A i \in 1..Len(bodies) :
                IF i \in done
                THEN forces[i] = [full |-> TRUE, value |-> FoldForce(pre, i, 1, ZERO)]
                ELSE forces[i] = EmptySlot
    /\ pc = "collected" =>
          /\ bodies = pre
          /\ Len(forces) = Len(pre)
          /\ \A i \in 1..Len(pre) : forces[i] = FoldForce(pre, i, 1, ZERO)

\* C6's case: the task of the last body has finished before every other task,
\* with a nonzero force.
C6_Witness ==
    /\ pc = "par"
    /\ done = {Len(bodies)}
    /\ forces[Len(bodies)].value # ZERO

\* C4: check_boundary_collisions leaves the position within
\* [radius, extent - radius] on each axis; on each axis the velocity component
\* is negated and scaled by FRICTION exactly when the position was <= radius or
\* >= extent - radius, and is unchanged otherwise; a body at x = SCREEN_WIDTH
\* moving outward ends at x <= SCREEN_WIDTH - radius moving inward.
C4_BoundaryResolution ==
    pc = "boundary" =>
        LET b == arg[1]
            hitX == b.position.x <= b.radius \/ b.position.x >= SCREEN_WIDTH - b.radius
            hitY == b.position.y <= b.radius \/ b.position.y >= SCREEN_HEIGHT - b.radius
        IN  (2 * b.radius <= SCREEN_WIDTH /\ 2 * b.radius <= SCREEN_HEIGHT) =>
              /\ InArena(ret)
              /\ ret.velocity.x = IF hitX THEN Div((-b.velocity.x) * FRICTION, 100)
                                          ELSE b.velocity.x
              /\ ret.velocity.y = IF hitY THEN Div((-b.velocity.y) * FRICTION, 100)
                                          ELSE b.velocity.y
              /\ ~hitX => ret.position.x = b.position.x
              /\ ~hitY => ret.position.y = b.position.y
              /\ (b.position.x = SCREEN_WIDTH /\ b.velocity.x > 0) =>
                    /\ ret.position.x <= SCREEN_WIDTH - b.radius
                    /\ ret.velocity.x < 0

\* C4's case: the body was at x = SCREEN_WIDTH moving outward, and on the other
\* axis exactly at its radius.
C4_Witness ==
    /\ pc = "boundary"
    /\ arg[1].position.x = SCREEN_WIDTH /\ arg[1].velocity.x > 0
    /\ arg[1].position.y = arg[1].radius /\ arg[1].velocity.y # 0
    /\ ret.velocity.x < 0

\* the contribution of body o to the force on body b, as the claim states it
PairContribution(b, o) ==
    LET dx == o.position.x - b.position.x
        dy == o.position.y - b.position.y
        d == Sqrt(dx * dx + dy * dy)
        magnitude == Div(G * Div(b.mass * o.mass, Div(d * d, Scale)), Scale)
    IN  IF dx * dx + dy * dy < (2 * b.radius) * (2 * b.radius) THEN ZERO
        ELSE vec2(Div(magnitude * dx, d), Div(magnitude * dy, d))

RECURSIVE SumContributions(_, _, _)
SumContributions(bs, i, others) ==
    IF others = {} THEN ZERO
    ELSE LET j == CHOOSE k \in others : TRUE
         IN  VAdd(PairContribution(bs[i], bs[j]), SumContributions(bs, i, others \ {j}))

\* C5: calculate_forces returns one force per body, index-aligned, entry i the
\* sum over j # i of the contribution of j on i: zero when j is nearer than
\* 2 * radius_i, G * m_i * m_j / distance^2 toward j otherwise.
C5_ForcesAreSums ==
    pc = "calculate_forces" =>
        /\ DOMAIN ret = 1..Len(arg)
        /\ \A i \in 1..Len(arg) :
              ret[i] = SumContributions(arg, i, (1..Len(arg)) \ {i})

\* C5's case: a collection in which one body takes a nonzero contribution from
\* a neighbour that itself takes none from it (the thresholds differ).
C5_Witness ==
    /\ pc = "calculate_forces"
    /\ Len(arg) = 3
    /\ \E i, j \in 1..3 :
          /\ i # j
          /\ PairContribution(arg[i], arg[j]) # ZERO
          /\ PairContribution(arg[j], arg[i]) = ZERO
          /\ arg[i].position # arg[j].position
          /\ ret[i] # ZERO

\* C7: with one substep, apply_forces_with_substeps leaves every body exactly
\* as apply_forces does.
C7_OneSubstepIsApplyForces ==
    (pc = "apply" /\ arg.substeps = 1) => ret.sub = ret.single

\* C7's case: one substep, on a collection in which the force moved a body and
\* the limit on the velocity came into play.
C7_Witness ==
    /\ pc = "apply" /\ arg.substeps = 1
    /\ Len(arg.bodies) = 2 /\ Len(arg.forces) = 2
    /\ \E i \in 1..2 :
          /\ ret.single[i].position # arg.bodies[i].position
          /\ LengthSq(ret.single[i].velocity) > (MAX_VELOCITY - Scale) * (MAX_VELOCITY - Scale)
          /\ ret.single[i].velocity # arg.bodies[i].velocity

\* the pair is at least 2 * max(radius_i, radius_j) apart
Separated(a, b) ==
    LET dx == b.position.x - a.position.x
        dy == b.position.y - a.position.y
        r == Max(a.radius, b.radius)
    IN  dx * dx + dy * dy >= (2 * r) * (2 * r)

SameButVelocity(before, after) ==
    /\ after.position = before.position
    /\ after.mass = before.mass
    /\ after.radius = before.radius
    /\ after.freezed = before.freezed

\* C9: check_and_resolve_collision, applied any number of times, leaves both
\* velocities of a pair at least 2 * max(radius_i, radius_j) apart unchanged;
\* it never changes a position, mass, radius or frozen flag.
C9_SeparatedPairUntouched ==
    pc = "collision" =>
        /\ SameButVelocity(arg[1], ret[1]) /\ SameButVelocity(arg[2], ret[2])
        /\ Separated(arg[1], arg[2]) =>
              /\ ret[1].velocity = arg[1].velocity
              /\ ret[2].velocity = arg[2].velocity

\* C9's case: a pair exactly 2 * max(radius_i, radius_j) apart with different
\* velocities.
C9_Witness ==
    /\ pc = "collision"
    /\ Separated(arg[1], arg[2])
    /\ Distance(arg[1].position, arg[2].position) = 2 * Max(arg[1].radius, arg[2].radius)
    /\ arg[1].velocity # arg[2].velocity
    /\ arg[1].radius # arg[2].radius

====
